---- MODULE Spec2Model ----
(***************************************************************************)
(* Model of arxiv_daily_digest_simple.py: the fetch -> filter -> dedupe -> *)
(* format -> send pipeline of the arXiv keyword digest.                    *)
(*                                                                         *)
(* Strings that the program inspects character by character (titles,      *)
(* abstracts, keywords, date stamps) are sequences of one-character        *)
(* strings; strings it only passes around (names, links) are TLA+ strings. *)
(***************************************************************************)
EXTENDS Integers, Sequences, FiniteSets, TLC

(* ---------------------------- bounds ----------------------------------- *)
\* number of keyword groups of KEYWORD_GROUPS the model runs over
NumGroups == 2
\* largest number of entries one feed response carries
MaxEntries == 2
\* largest number of papers per group of a GroupedResults given to the
\* deduplicator and the formatter directly
MaxPapers == 2

(* ---------------------------- text ------------------------------------- *)
UpperChars == <<"A","B","C","D","E","F","G","H","I","J","K","L","M",
                "N","O","P","Q","R","S","T","U","V","W","X","Y","Z">>
LowerChars == <<"a","b","c","d","e","f","g","h","i","j","k","l","m",
                "n","o","p","q","r","s","t","u","v","w","x","y","z">>
Whitespace == {" ", "\n", "\t"}

\* str.lower() on one character
LowerChar(c) ==
    IF \E i \in 1..26 : UpperChars[i] = c
    THEN LowerChars[CHOOSE i \in 1..26 : UpperChars[i] = c]
    ELSE c

\* str.lower()
Lower(s) == [i \in 1..Len(s) |-> LowerChar(s[i])]

\* str.strip(): drop leading and trailing whitespace
Strip(s) ==
    LET keep == {i \in 1..Len(s) : s[i] \notin Whitespace}
    IN  IF keep = {} THEN <<>>
        ELSE LET lo == CHOOSE i \in keep : \A j \in keep : i <= j
                 hi == CHOOSE i \in keep : \A j \in keep : i >= j
             IN  SubSeq(s, lo, hi)

\* str.replace('\n', ' ')
ReplaceNewlines(s) == [i \in 1..Len(s) |-> IF s[i] = "\n" THEN " " ELSE s[i]]

\* entry.title.strip().replace('\n', ' ')
CleanText(s) == ReplaceNewlines(Strip(s))

\* Python's  a in b  on strings
Contains(b, a) ==
    \E i \in 0..(Len(b) - Len(a)) : SubSeq(b, i + 1, i + Len(a)) = a

keyword_matched(text, keyword) == Contains(Lower(text), Lower(keyword))

\* sep.join(parts) for strings that are passed around whole
RECURSIVE Join(_, _)
Join(sep, parts) ==
    IF Len(parts) = 0 THEN <<>>
    ELSE IF Len(parts) = 1 THEN <<parts[1]>>
    ELSE <<parts[1], sep>> \o Join(sep, Tail(parts))

(* ---------------------------- dates ------------------------------------ *)
DigitChars == <<"0","1","2","3","4","5","6","7","8","9">>
Digit(n) == DigitChars[n + 1]

\* code point order of the characters of a date stamp: '-' < '0'..'9' < ':'
\* < 'T' < 'Z'
Ord(c) ==
    IF c = "-" THEN 45
    ELSE IF \E i \in 1..10 : DigitChars[i] = c
         THEN 47 + (CHOOSE i \in 1..10 : DigitChars[i] = c)
    ELSE IF c = ":" THEN 58
    ELSE IF c = "T" THEN 84
    ELSE 90

\* Python's  a >= b  on strings: lexicographic by code point
RECURSIVE StrGe(_, _)
StrGe(a, b) ==
    IF Len(b) = 0 THEN TRUE
    ELSE IF Len(a) = 0 THEN FALSE
    ELSE IF Ord(a[1]) # Ord(b[1]) THEN Ord(a[1]) > Ord(b[1])
    ELSE StrGe(Tail(a), Tail(b))

\* strftime("%Y-%m-%d") of the date <<y, m, d>>
FormatDate(d) ==
    << Digit(d[1] \div 1000), Digit((d[1] \div 100) % 10),
       Digit((d[1] \div 10) % 10), Digit(d[1] % 10), "-",
       Digit(d[2] \div 10), Digit(d[2] % 10), "-",
       Digit(d[3] \div 10), Digit(d[3] % 10) >>

IsLeap(y) == (y % 4 = 0 /\ y % 100 # 0) \/ y % 400 = 0

DaysInMonth(y, m) ==
    IF m = 2 THEN (IF IsLeap(y) THEN 29 ELSE 28)
    ELSE IF m \in {4, 6, 9, 11} THEN 30 ELSE 31

PrevDay(d) ==
    IF d[3] > 1 THEN <<d[1], d[2], d[3] - 1>>
    ELSE IF d[2] > 1 THEN <<d[1], d[2] - 1, DaysInMonth(d[1], d[2] - 1)>>
    ELSE <<d[1] - 1, 12, 31>>

\* date - timedelta(days=n)
RECURSIVE MinusDays(_, _)
MinusDays(d, n) == IF n = 0 THEN d ELSE MinusDays(PrevDay(d), n - 1)

\* str.split("T")[0]
RECURSIVE BeforeT(_)
BeforeT(s) ==
    IF Len(s) = 0 \/ s[1] = "T" THEN <<>>
    ELSE <<s[1]>> \o BeforeT(Tail(s))

(* ---------------------------- configuration ---------------------------- *)
DAYS_BACK == 5

CATEGORIES == <<"physics.optics", "quant-ph", "eess.SP",
                "cs.CV", "cs.LG", "physics.app-ph">>

kwSiN == <<"S","i","N">>
kwAlN == <<"A","l","N">>
kwComb == <<"o","n","-","c","h","i","p"," ","c","o","m","b">>
kwSPDC == <<"S","P","D","C">>

\* KEYWORD_GROUPS in configured order, each group cut down to the keywords
\* the model searches for
AllGroups ==
    << [name |-> "Integrated Photonic Materials", keywords |-> <<kwSiN, kwAlN>>],
       [name |-> "Nonlinear & EO Devices",        keywords |-> <<kwComb>>],
       [name |-> "Core Topics (LNOI, Quantum etc)", keywords |-> <<kwSPDC>>] >>

KEYWORD_GROUPS ==
    SubSeq(AllGroups, 1, IF NumGroups < Len(AllGroups) THEN NumGroups ELSE Len(AllGroups))

GroupCount == Len(KEYWORD_GROUPS)

(* ---------------------------- state ------------------------------------ *)
VARIABLES
    STRICT_CATEGORY_MODE,   \* module-level flag read by is_category_allowed
    SENDER_EMAIL,           \* os.getenv("SENDER_EMAIL"): "None" when unset
    SENDER_PASSWORD,        \* os.getenv("SENDER_PASSWORD"): "None" when unset
    today,                  \* the date datetime.now() falls on, <<y, m, d>>
    pc,                     \* position of the main program
    gi,                     \* index of the group the main loop is at
    ki,                     \* index of the keyword search_group is at
    start_date,             \* search_group's start_date
    matched,                \* search_group's matched list
    all_grouped,            \* GroupedResults being accumulated
    total_groups_with_hits,
    all_grouped_deduped,
    email_body,
    subject,
    feed_requests,          \* number of feedparser.parse calls made
    last_fetch,             \* how the latest feedparser.parse call ended
    smtp_log,               \* calls made on the mail relay, in order
    failure,                \* the exception that ended the run, if any
    \* functions applied to arbitrary arguments
    fn,                     \* which function is applied
    arg,                    \* its argument
    res,                    \* its result
    res2                    \* deduplicate_grouped_entries of res

progVars == << STRICT_CATEGORY_MODE, SENDER_EMAIL, SENDER_PASSWORD, today, pc,
               gi, ki, start_date, matched, all_grouped,
               total_groups_with_hits, all_grouped_deduped, email_body,
               subject, feed_requests, last_fetch, smtp_log, failure >>
fnVars == << fn, arg, res, res2 >>
vars == << progVars, fnVars >>

(* ---------------------------- feed entries ----------------------------- *)
\* a feed time stamp, "YYYY-MM-DDT00:00:00Z"
Stamp(d) == FormatDate(d) \o <<"T","0","0",":","0","0",":","0","0","Z">>

TagDict(term) == [kind |-> "dict", term |-> term]
TagStr(term)  == [kind |-> "str", value |-> term]
TagNoTerm     == [kind |-> "dict"]
TagOther      == [kind |-> "other"]

\* The entries a feed response may carry.  An entry is a function from the
\* attributes it has to their values; a malformed entry lacks some.
eSiN ==
    [title |-> <<"S","i","N">>, summary |-> kwComb,
     published |-> Stamp(<<2024, 1, 2>>), tags |-> <<TagDict("physics.optics")>>,
     authors |-> <<"A. One", "B. Two">>, link |-> "http://arxiv.org/abs/1"]
eSinLower ==
    [title |-> <<" ","s","i","n","\n">>, summary |-> <<"a","l","n">>,
     published |-> Stamp(<<2024, 1, 1>>), tags |-> <<TagOther, TagStr("quant-ph")>>,
     authors |-> <<"C. Three">>, link |-> "http://arxiv.org/abs/2"]
eOld ==
    [title |-> <<"A","l","N">>, summary |-> <<"S","i","N">>,
     published |-> Stamp(<<2023, 12, 30>>), tags |-> <<TagDict("cs.LG")>>,
     authors |-> <<"D. Four">>, link |-> "http://arxiv.org/abs/3"]
eOtherCat ==
    [title |-> <<"O","n","-","c","h","i","p","\n","c","o","m","b">>,
     summary |-> <<>>,
     published |-> Stamp(<<2024, 2, 27>>),
     tags |-> <<TagDict("math.CO"), TagNoTerm, TagStr("cs.AI")>>,
     authors |-> <<>>, link |-> "http://arxiv.org/abs/4"]
eNoTags ==
    [title |-> <<"A","l","N">>, summary |-> <<>>,
     published |-> Stamp(<<2024, 2, 26>>),
     authors |-> <<"E. Five">>, link |-> "http://arxiv.org/abs/5"]
eNoPublished ==
    [title |-> <<"S","i","N">>, summary |-> <<>>,
     tags |-> <<TagDict("physics.optics")>>,
     authors |-> <<"F. Six">>, link |-> "http://arxiv.org/abs/6"]
eNoSummary ==
    [title |-> <<"A","l","N">>,
     published |-> Stamp(<<2024, 3, 1>>), tags |-> <<TagDict("quant-ph")>>,
     authors |-> <<"G. Seven">>, link |-> "http://arxiv.org/abs/7"]

Entries == {eSiN, eSinLower, eOld, eOtherCat, eNoTags, eNoPublished, eNoSummary}

EntryFields == {"title", "summary", "published", "tags", "authors", "link"}
WellFormed(entry) == DOMAIN entry = EntryFields

\* the feed responses: up to MaxEntries entries in any order
Feeds == UNION {[1..n -> Entries] : n \in 0..MaxEntries}

\* the days a run may start on
Days == {<<2024, 1, 6>>, <<2024, 3, 2>>}

(* ---------------------------- search ----------------------------------- *)
get_start_date_str == FormatDate(MinusDays(today, DAYS_BACK))

\* the categories list is_category_allowed builds from entry.tags
RECURSIVE TagTerms(_)
TagTerms(tags) ==
    IF Len(tags) = 0 THEN <<>>
    ELSE LET tag == tags[1]
         IN  (IF tag.kind = "dict" /\ "term" \in DOMAIN tag THEN <<tag.term>>
              ELSE IF tag.kind = "str" THEN <<tag.value>>
              ELSE <<>>) \o TagTerms(Tail(tags))

is_category_allowed(entry) ==
    IF ~STRICT_CATEGORY_MODE THEN TRUE
    ELSE IF "tags" \notin DOMAIN entry THEN FALSE      \* except: return False
    ELSE LET categories == TagTerms(entry.tags)
         IN  \E c \in 1..Len(CATEGORIES) :
                 \E k \in 1..Len(categories) : categories[k] = CATEGORIES[c]

\* published > start_date
DateStrictlyAfter(published, start) == ~StrGe(start, published)

\* published >= start_date
DateOk(published, start) == StrGe(published, start)

\* The body of the loop over feed.entries for one entry: the papers it
\* appends to matched, or the AttributeError an absent attribute raises.
EntryStep(entry, kw, group_name, start) ==
    IF "published" \notin DOMAIN entry THEN [raised |-> TRUE, papers |-> <<>>]
    ELSE IF ~(DateOk(BeforeT(entry.published), start) /\ is_category_allowed(entry))
         THEN [raised |-> FALSE, papers |-> <<>>]
    ELSE IF "title" \notin DOMAIN entry \/ "summary" \notin DOMAIN entry
         THEN [raised |-> TRUE, papers |-> <<>>]
    ELSE LET title == CleanText(entry.title)
             abstract == CleanText(entry.summary)
         IN  IF ~(keyword_matched(title, kw) \/ keyword_matched(abstract, kw))
             THEN [raised |-> FALSE, papers |-> <<>>]
             ELSE IF "authors" \notin DOMAIN entry \/ "link" \notin DOMAIN entry
                  THEN [raised |-> TRUE, papers |-> <<>>]
             ELSE [raised |-> FALSE,
                   papers |-> << [title |-> title,
                                  authors |-> Join(", ", entry.authors),
                                  summary |-> abstract,
                                  link |-> entry.link,
                                  keyword |-> kw,
                                  group |-> group_name] >>]

\* for entry in feed.entries: ...   starting from the list m
RECURSIVE SearchEntries(_, _, _, _, _)
SearchEntries(entries, kw, group_name, start, m) ==
    IF Len(entries) = 0 THEN [raised |-> FALSE, matched |-> m]
    ELSE LET step == EntryStep(entries[1], kw, group_name, start)
         IN  IF step.raised THEN [raised |-> TRUE, matched |-> m]
             ELSE SearchEntries(Tail(entries), kw, group_name, start,
                                m \o step.papers)

\* feedparser.parse(url): the parsed feed, or on a network or parse failure
\* either a feed with the bozo flag set and no entries (the failures the
\* library catches itself, such as a refused connection) or the exception
\* (the ones it lets through, such as a connection closed while the
\* response is read).  The call is not inside a try.
FetchOutcomes ==
    {[bozo |-> FALSE, raised |-> FALSE, entries |-> f] : f \in Feeds}
        \cup {[bozo |-> TRUE, raised |-> FALSE, entries |-> <<>>],
              [bozo |-> TRUE, raised |-> TRUE, entries |-> <<>>]}

\* one iteration of  for kw in keywords  on the outcome of its fetch
SearchKeyword(feed, kw, group_name, start, m) ==
    IF feed.raised THEN [raised |-> TRUE, matched |-> m]
    ELSE SearchEntries(feed.entries, kw, group_name, start, m)

(* ---------------------------- deduplication ---------------------------- *)
\* A GroupedResults is the sequence of its items in insertion order, each
\* [name |-> group name, papers |-> list of papers].
Keys(grouped) == [i \in 1..Len(grouped) |-> grouped[i].name]

\* the key without lower(): titles that differ in case count as different
TitleKeyCaseSensitive(paper) == Strip(paper.title)

\* title_key = paper["title"].strip().lower()
TitleKey(paper) == Lower(Strip(paper.title))

\* the loop when it removes a duplicate from the list it iterates over: the
\* paper after a removed one is skipped by the iteration and stays unchecked
RECURSIVE DedupPapersRemovingInPlace(_, _, _)
DedupPapersRemovingInPlace(papers, seen, kept) ==
    IF Len(papers) = 0 THEN [seen |-> seen, kept |-> kept]
    ELSE LET title_key == TitleKey(papers[1])
         IN  IF title_key \notin seen
             THEN DedupPapersRemovingInPlace(Tail(papers), seen \cup {title_key},
                                             Append(kept, papers[1]))
             ELSE IF Len(papers) = 1 THEN [seen |-> seen, kept |-> kept]
             ELSE DedupPapersRemovingInPlace(Tail(Tail(papers)), seen,
                                             Append(kept, papers[2]))

\* for paper in papers: ...   with the seen_titles set and the group's list
RECURSIVE DedupPapers(_, _, _)
DedupPapers(papers, seen, kept) ==
    IF Len(papers) = 0 THEN [seen |-> seen, kept |-> kept]
    ELSE LET title_key == TitleKey(papers[1])
         IN  IF title_key \notin seen
             THEN DedupPapers(Tail(papers), seen \cup {title_key},
                              Append(kept, papers[1]))
             ELSE DedupPapers(Tail(papers), seen, kept)

\* for group_name, papers in grouped_entries.items(): ...
RECURSIVE DedupGroups(_, _, _)
DedupGroups(grouped, seen, deduped) ==
    IF Len(grouped) = 0 THEN deduped
    ELSE LET r == DedupPapers(grouped[1].papers, seen, <<>>)
         IN  DedupGroups(Tail(grouped), r.seen,
                         Append(deduped, [name |-> grouped[1].name,
                                          papers |-> r.kept]))

deduplicate_grouped_entries(grouped_entries) ==
    DedupGroups(grouped_entries, {}, <<>>)

(* ---------------------------- formatting ------------------------------- *)
\* The body is the sequence of the lines that "\n".join puts together; a
\* line is its kind, the group name and the number it carries, and its text.
Line(kind, group, n, text) == [kind |-> kind, group |-> group, n |-> n, text |-> text]

NoPapersBody == << Line("no-new-papers", "", DAYS_BACK, <<>>) >>

\* the lines of one paper, numbered i
PaperLines(i, paper) ==
    << Line("title", "", i, paper.title),
       Line("authors", "", 0, paper.authors),
       Line("keyword", "", 0, paper.keyword),
       Line("categories", "", 0, Join(", ", CATEGORIES)),
       Line("link", "", 0, <<paper.link>>),
       Line("summary", "", 0, paper.summary) >>

\* for i, paper in enumerate(papers, 1): ...
RECURSIVE EnumeratePapers(_, _)
EnumeratePapers(papers, i) ==
    IF i > Len(papers) THEN <<>>
    ELSE PaperLines(i, papers[i]) \o EnumeratePapers(papers, i + 1)

\* the loop when total_papers counts a group as one paper
RECURSIVE FormatGroupsCountingGroups(_, _, _)
FormatGroupsCountingGroups(grouped, lines, total_papers) ==
    IF Len(grouped) = 0 THEN [lines |-> lines, total_papers |-> total_papers]
    ELSE LET group_name == grouped[1].name
             papers == grouped[1].papers
         IN  IF Len(papers) = 0
             THEN FormatGroupsCountingGroups(Tail(grouped), lines, total_papers)
             ELSE FormatGroupsCountingGroups(Tail(grouped),
                      Append(lines, Line("header", group_name, Len(papers), <<>>))
                          \o EnumeratePapers(papers, 1),
                      total_papers + 1)

\* for group_name, papers in grouped_entries.items(): ...
RECURSIVE FormatGroups(_, _, _)
FormatGroups(grouped, lines, total_papers) ==
    IF Len(grouped) = 0 THEN [lines |-> lines, total_papers |-> total_papers]
    ELSE LET group_name == grouped[1].name
             papers == grouped[1].papers
         IN  IF Len(papers) = 0
             THEN FormatGroups(Tail(grouped), lines, total_papers)
             ELSE FormatGroups(Tail(grouped),
                      Append(lines, Line("header", group_name, Len(papers), <<>>))
                          \o EnumeratePapers(papers, 1),
                      total_papers + Len(papers))

\* all(len(papers) == 0 for papers in grouped_entries.values())
AllEmpty(grouped) == \A i \in 1..Len(grouped) : Len(grouped[i].papers) = 0

\* format_digest with any(...) for all(...) in its first test
format_digest_any_empty(grouped_entries) ==
    IF \E i \in 1..Len(grouped_entries) : Len(grouped_entries[i].papers) = 0
    THEN NoPapersBody
    ELSE LET r == FormatGroups(grouped_entries, << Line("intro", "", 0, <<>>) >>, 0)
         IN  Append(r.lines, Line("total", "", r.total_papers, <<>>))

format_digest(grouped_entries) ==
    IF AllEmpty(grouped_entries) THEN NoPapersBody
    ELSE LET r == FormatGroups(grouped_entries, << Line("intro", "", 0, <<>>) >>, 0)
         IN  Append(r.lines, Line("total", "", r.total_papers, <<>>))

(* ---------------------------- mail ------------------------------------- *)
None == "None"

\* the calls send_email makes on the relay, in order
SmtpCalls == <<"SMTP", "ehlo", "starttls", "ehlo", "login", "sendmail", "quit">>

CredentialsPresent == SENDER_EMAIL # None /\ SENDER_PASSWORD # None

\* The calls that may raise.  The relay accepts no login without the
\* sender's address and secret, so without them no call after login is
\* reached.
MayFailAt ==
    IF CredentialsPresent THEN 0..Len(SmtpCalls) ELSE 1..5

\* send_email without the raise of its except clause
send_email_swallowing(fail_at) ==
    IF fail_at = 0
    THEN [log |-> [i \in 1..Len(SmtpCalls) |-> [call |-> SmtpCalls[i], ok |-> TRUE]],
          raised |-> FALSE]
    ELSE [log |-> [i \in 1..fail_at |-> [call |-> SmtpCalls[i], ok |-> i < fail_at]],
          raised |-> FALSE]

\* send_email when call number fail_at raises (0: none does): the calls made
\* and whether the exception leaves the function
send_email(fail_at) ==
    IF fail_at = 0
    THEN [log |-> [i \in 1..Len(SmtpCalls) |-> [call |-> SmtpCalls[i], ok |-> TRUE]],
          raised |-> FALSE]
    ELSE [log |-> [i \in 1..fail_at |-> [call |-> SmtpCalls[i], ok |-> i < fail_at]],
          raised |-> TRUE]               \* except: print; raise

(* ---------------------------- the run ---------------------------------- *)
Unset == <<>>

FnIdle == fn = "none" /\ arg = Unset /\ res = Unset /\ res2 = Unset

\* The configuration is fixed for a run: the strict flag as the module sets
\* it (True as shipped, False when switched off), the two secrets as the
\* environment has them or not, and the day the run starts on (the model
\* takes datetime.now() and datetime.now(timezone.utc) to fall on one day).
Init ==
    /\ STRICT_CATEGORY_MODE \in BOOLEAN
    /\ SENDER_EMAIL \in {None, "sender@example.org"}
    /\ SENDER_PASSWORD \in {None, "app-password"}
    /\ today \in Days
    /\ pc = "main_loop"
    /\ gi = 1
    /\ ki = 0
    /\ start_date = Unset
    /\ matched = <<>>
    /\ all_grouped = <<>>                 \* all_grouped = {}
    /\ total_groups_with_hits = 0
    /\ all_grouped_deduped = Unset
    /\ email_body = Unset
    /\ subject = Unset
    /\ feed_requests = 0
    /\ last_fetch = "none"
    /\ smtp_log = <<>>
    /\ failure = "none"
    /\ FnIdle

config == << STRICT_CATEGORY_MODE, SENDER_EMAIL, SENDER_PASSWORD, today >>

\* the main loop calls search_group(group_name, kw_list)
StartGroup ==
    /\ pc = "main_loop"
    /\ gi <= GroupCount
    /\ start_date' = get_start_date_str
    /\ matched' = <<>>
    /\ ki' = 1
    /\ pc' = "search_group"
    /\ UNCHANGED << config, gi, all_grouped, total_groups_with_hits,
                    all_grouped_deduped, email_body, subject, feed_requests,
                    last_fetch, smtp_log, failure, fnVars >>

\* search_group fetches the feed of its next keyword and filters the entries
SearchNextKeyword ==
    /\ pc = "search_group"
    /\ ki <= Len(KEYWORD_GROUPS[gi].keywords)
    /\ \E feed \in FetchOutcomes :
          LET r == SearchKeyword(feed, KEYWORD_GROUPS[gi].keywords[ki],
                                 KEYWORD_GROUPS[gi].name, start_date, matched)
          IN  /\ feed_requests' = feed_requests + 1
              /\ last_fetch' = IF feed.bozo THEN "failed" ELSE "parsed"
              /\ IF r.raised
                 THEN /\ pc' = "failed"
                      /\ failure' = IF feed.raised THEN "ConnectionError"
                                    ELSE "AttributeError"
                      /\ UNCHANGED << matched, ki >>
                 ELSE /\ matched' = r.matched
                      /\ ki' = ki + 1
                      /\ UNCHANGED << pc, failure >>
    /\ UNCHANGED << config, gi, start_date, all_grouped, total_groups_with_hits,
                    all_grouped_deduped, email_body, subject, smtp_log, fnVars >>

\* search_group returns matched; the main loop counts and stores the group
EndGroup ==
    /\ pc = "search_group"
    /\ ki > Len(KEYWORD_GROUPS[gi].keywords)
    /\ total_groups_with_hits' =
          IF Len(matched) > 0 THEN total_groups_with_hits + 1
          ELSE total_groups_with_hits
    /\ all_grouped' = Append(all_grouped, [name |-> KEYWORD_GROUPS[gi].name,
                                            papers |-> matched])
    /\ gi' = gi + 1
    /\ pc' = "main_loop"
    /\ UNCHANGED << config, ki, start_date, matched, all_grouped_deduped,
                    email_body, subject, feed_requests, last_fetch, smtp_log,
                    failure, fnVars >>

Deduplicate ==
    /\ pc = "main_loop"
    /\ gi > GroupCount
    /\ all_grouped_deduped' = deduplicate_grouped_entries(all_grouped)
    /\ pc' = "format"
    /\ UNCHANGED << config, gi, ki, start_date, matched, all_grouped,
                    total_groups_with_hits, email_body, subject, feed_requests,
                    last_fetch, smtp_log, failure, fnVars >>

\* the subject line: the run date and the group count it embeds
Subject(date, groups) == [date |-> date, groups |-> groups]

Format ==
    /\ pc = "format"
    /\ email_body' = format_digest(all_grouped_deduped)
    /\ subject' = Subject(FormatDate(today), total_groups_with_hits)
    /\ pc' = "send"
    /\ UNCHANGED << config, gi, ki, start_date, matched, all_grouped,
                    total_groups_with_hits, all_grouped_deduped, feed_requests,
                    last_fetch, smtp_log, failure, fnVars >>

\* send_email(subject, email_body), the last statement of the program: the
\* process exits with status 0 when it returns and with a traceback when it
\* raises
SendEmail ==
    /\ pc = "send"
    /\ \E fail_at \in MayFailAt :
          LET r == send_email(fail_at)
          IN  /\ smtp_log' = smtp_log \o r.log
              /\ pc' = IF r.raised THEN "failed" ELSE "done"
              /\ failure' = IF r.raised THEN "SMTPException" ELSE failure
    /\ UNCHANGED << config, gi, ki, start_date, matched, all_grouped,
                    total_groups_with_hits, all_grouped_deduped, email_body,
                    subject, feed_requests, last_fetch, fnVars >>

Next ==
    \/ StartGroup
    \/ SearchNextKeyword
    \/ EndGroup
    \/ Deduplicate
    \/ Format
    \/ SendEmail

Spec == Init /\ [][Next]_vars

(* ------------------- the functions on arbitrary arguments -------------- *)
Paper(title, kw, link) ==
    [title |-> title, authors |-> <<"A. One">>, summary |-> <<>>,
     link |-> link, keyword |-> kw, group |-> ""]

\* the papers a GroupedResults argument is made of: titles that differ in
\* case and surrounding blanks only, the same paper under two keywords, and
\* an unrelated title
Papers ==
    { Paper(<<"S","i","N">>, kwSiN, "http://arxiv.org/abs/1"),
      Paper(<<"S","i","N">>, kwComb, "http://arxiv.org/abs/1"),
      Paper(<<" ","s","i","n"," ">>, kwAlN, "http://arxiv.org/abs/2"),
      Paper(<<"A","l","N">>, kwAlN, "http://arxiv.org/abs/5"),
      Paper(<<"a","L","n">>, kwAlN, "http://arxiv.org/abs/3") }

PaperLists == UNION {[1..n -> Papers] : n \in 0..MaxPapers}

\* every GroupedResults over the configured groups with up to MaxPapers
\* papers per group
GroupedInputs ==
    { [i \in 1..GroupCount |->
          [name |-> KEYWORD_GROUPS[i].name,
           papers |-> [j \in 1..Len(c[i]) |->
                          [c[i][j] EXCEPT !.group = KEYWORD_GROUPS[i].name]]]]
      : c \in [1..GroupCount -> PaperLists] }

Keywords == {kwSiN, kwAlN, kwComb}

ProgIdle ==
    /\ SENDER_EMAIL = None
    /\ SENDER_PASSWORD = None
    /\ pc = "none"
    /\ gi = 1
    /\ ki = 0
    /\ start_date = Unset
    /\ matched = <<>>
    /\ all_grouped = <<>>
    /\ total_groups_with_hits = 0
    /\ all_grouped_deduped = Unset
    /\ email_body = Unset
    /\ subject = Unset
    /\ feed_requests = 0
    /\ last_fetch = "none"
    /\ smtp_log = <<>>
    /\ failure = "none"

FnInit ==
    /\ ProgIdle
    /\ fn = "input"
    /\ res = Unset
    /\ res2 = Unset
    /\ \/ /\ STRICT_CATEGORY_MODE = TRUE
          /\ today = <<2024, 1, 6>>
          /\ \E g \in GroupedInputs : arg = [kind |-> "grouped", g |-> g]
       \/ /\ STRICT_CATEGORY_MODE \in BOOLEAN
          /\ today \in Days
          /\ \E feed \in FetchOutcomes, kw \in Keywords :
                arg = [kind |-> "search", feed |-> feed, kw |-> kw]

ApplyDedup ==
    /\ fn = "input"
    /\ arg.kind = "grouped"
    /\ res' = deduplicate_grouped_entries(arg.g)
    /\ fn' = "dedup"
    /\ UNCHANGED << progVars, arg, res2 >>

ApplyDedupAgain ==
    /\ fn = "dedup"
    /\ res2' = deduplicate_grouped_entries(res)
    /\ fn' = "dedup-twice"
    /\ UNCHANGED << progVars, arg, res >>

ApplyFormat ==
    /\ fn = "input"
    /\ arg.kind = "grouped"
    /\ res' = format_digest(arg.g)
    /\ fn' = "format"
    /\ UNCHANGED << progVars, arg, res2 >>

ApplySearch ==
    /\ fn = "input"
    /\ arg.kind = "search"
    /\ res' = SearchKeyword(arg.feed, arg.kw, KEYWORD_GROUPS[1].name,
                            get_start_date_str, <<>>)
    /\ fn' = "search"
    /\ UNCHANGED << progVars, arg, res2 >>

FnNext ==
    \/ ApplyDedup
    \/ ApplyDedupAgain
    \/ ApplyFormat
    \/ ApplySearch

FnSpec == FnInit /\ [][FnNext]_vars

(* ======================= properties of the functions =================== *)
\* a title with its leading and trailing blanks removed, in lower case
RECURSIVE DropLeading(_)
DropLeading(t) ==
    IF Len(t) > 0 /\ t[1] \in {" ", "\n", "\t"} THEN DropLeading(Tail(t)) ELSE t

RECURSIVE DropTrailing(_)
DropTrailing(t) ==
    IF Len(t) > 0 /\ t[Len(t)] \in {" ", "\n", "\t"}
    THEN DropTrailing(SubSeq(t, 1, Len(t) - 1)) ELSE t

NormalizedTitle(t) ==
    LET u == DropTrailing(DropLeading(t))
    IN  [i \in 1..Len(u) |-> LowerChar(u[i])]

\* the places <<group index, index in the group>> of a GroupedResults
Positions(g) ==
    UNION { {<<i, j>> : j \in 1..Len(g[i].papers)} : i \in 1..Len(g) }

PaperAt(g, p) == g[p[1]].papers[p[2]]

\* groups in configured order, matches in discovery order within a group
Before(p, q) == p[1] < q[1] \/ (p[1] = q[1] /\ p[2] < q[2])

FirstOccurrence(g, p) ==
    \A q \in Positions(g) :
        Before(q, p) =>
            NormalizedTitle(PaperAt(g, q).title) # NormalizedTitle(PaperAt(g, p).title)

\* the papers of group i from index j on that are first occurrences
RECURSIVE FirstsOf(_, _, _)
FirstsOf(g, i, j) ==
    IF j > Len(g[i].papers) THEN <<>>
    ELSE (IF FirstOccurrence(g, <<i, j>>) THEN <<g[i].papers[j]>> ELSE <<>>)
             \o FirstsOf(g, i, j + 1)

\* C1: deduplicate_grouped_entries returns the stable first-occurrence
\* filter of its input: the same group keys in the same order, no two kept
\* matches with the same normalized title, and of every normalized title
\* the copy that comes first in group order then list order, in its group.
C1_StableFirstOccurrence ==
    fn = "dedup" =>
        /\ Len(res) = Len(arg.g)
        /\ \A i \in 1..Len(arg.g) : res[i].name = arg.g[i].name
        /\ \A p \in Positions(res) : \A q \in Positions(res) :
               p # q => NormalizedTitle(PaperAt(res, p).title)
                            # NormalizedTitle(PaperAt(res, q).title)
        /\ \A i \in 1..Len(arg.g) : res[i].papers = FirstsOf(arg.g, i, 1)

\* a later group loses all its matches to an earlier group's match whose
\* title differs in case or blanks only
C1_Witness ==
    /\ fn = "dedup"
    /\ Len(arg.g[1].papers) > 0
    /\ Len(arg.g[2].papers) = 2
    /\ res[2].papers = <<>>
    /\ \E j \in 1..2 : arg.g[2].papers[j].title # arg.g[1].papers[1].title

\* C8: deduplicating the output of the deduplicator changes nothing
C8_Idempotent ==
    fn = "dedup-twice" => res2 = res

C8_Witness ==
    /\ fn = "dedup-twice"
    /\ res # arg.g
    /\ \E i \in 1..Len(res) : Len(res[i].papers) = 2

Headers(b) == SelectSeq(b, LAMBDA l : l.kind = "header")

\* the header and numbered title lines of a body, in order
Outline(b) ==
    LET hs == SelectSeq(b, LAMBDA l : l.kind \in {"header", "title"})
    IN  [k \in 1..Len(hs) |-> [kind |-> hs[k].kind, group |-> hs[k].group,
                                n |-> hs[k].n, text |-> hs[k].text]]

\* one header per non-empty group with its count, then its entries 1..n
RECURSIVE ExpectedOutline(_)
ExpectedOutline(g) ==
    IF Len(g) = 0 THEN <<>>
    ELSE (IF g[1].papers = <<>> THEN <<>>
          ELSE << [kind |-> "header", group |-> g[1].name,
                   n |-> Len(g[1].papers), text |-> <<>>] >>
               \o [i \in 1..Len(g[1].papers) |->
                      [kind |-> "title", group |-> "", n |-> i,
                       text |-> g[1].papers[i].title]])
         \o ExpectedOutline(Tail(g))

RECURSIVE CountPapers(_)
CountPapers(g) ==
    IF Len(g) = 0 THEN 0 ELSE Len(g[1].papers) + CountPapers(Tail(g))

\* C7: format_digest of all-empty groups is exactly the fixed no-new-papers
\* body, without header; otherwise it has one header per non-empty group in
\* order with the group's count, none for an empty group, the entries of
\* each group numbered 1..n in list order, and a last line with the total,
\* the sum of the group counts and the number of entries listed.
C7_FormatDigest ==
    fn = "format" =>
        IF \A i \in 1..Len(arg.g) : arg.g[i].papers = <<>>
        THEN /\ res = << [kind |-> "no-new-papers", group |-> "",
                          n |-> DAYS_BACK, text |-> <<>>] >>
             /\ Headers(res) = <<>>
        ELSE /\ Outline(res) = ExpectedOutline(arg.g)
             /\ \A k \in 1..Len(res) : res[k].kind = "total" <=> k = Len(res)
             /\ res[Len(res)].n = CountPapers(arg.g)
             /\ res[Len(res)].n =
                    Cardinality({k \in 1..Len(res) : res[k].kind = "title"})

C7_Witness ==
    /\ fn = "format"
    /\ arg.g[1].papers = <<>>
    /\ Len(arg.g[2].papers) = 2
    /\ Len(Headers(res)) = 1
    /\ res[Len(res)].n = 2

DigitVal(c) == CHOOSE n \in 0..9 : DigitChars[n + 1] = c

\* the day <<y, m, d>> a "YYYY-MM-DDT..." stamp falls on
PublishedDay(stamp) ==
    << 1000 * DigitVal(stamp[1]) + 100 * DigitVal(stamp[2])
           + 10 * DigitVal(stamp[3]) + DigitVal(stamp[4]),
       10 * DigitVal(stamp[6]) + DigitVal(stamp[7]),
       10 * DigitVal(stamp[9]) + DigitVal(stamp[10]) >>

DayNumber(d) == 10000 * d[1] + 100 * d[2] + d[3]

OnOrAfterCutoff(entry) ==
    DayNumber(PublishedDay(entry.published))
        >= DayNumber(MinusDays(today, DAYS_BACK))

CategoryCheckPasses(entry) ==
    STRICT_CATEGORY_MODE =>
        \E k \in 1..Len(entry.tags) : \E c \in 1..Len(CATEGORIES) :
            LET tag == entry.tags[k]
            IN  \/ tag.kind = "dict" /\ "term" \in DOMAIN tag /\ tag.term = CATEGORIES[c]
                \/ tag.kind = "str" /\ tag.value = CATEGORIES[c]

\* kw occurs in text, letter case aside
OccursIn(kw, text) ==
    \E off \in 0..(Len(text) - Len(kw)) :
        \A j \in 1..Len(kw) : LowerChar(text[off + j]) = LowerChar(kw[j])

\* the text as it is recorded: trimmed, line breaks turned into blanks
Recorded(text) ==
    LET u == DropTrailing(DropLeading(text))
    IN  [i \in 1..Len(u) |-> IF u[i] = "\n" THEN " " ELSE u[i]]

ShouldMatch(entry, kw) ==
    /\ OnOrAfterCutoff(entry)
    /\ CategoryCheckPasses(entry)
    /\ OccursIn(kw, Recorded(entry.title)) \/ OccursIn(kw, Recorded(entry.summary))

\* C5: for a keyword and every well-formed entry of its feed, search_group
\* records a match of the pair if and only if the entry is published on or
\* after the cutoff date, passes the category check (always, when strict
\* mode is off) and has the keyword, letter case aside, in its title or its
\* abstract.
C5_EntryFilter ==
    (fn = "search" /\ ~res.raised) =>
        \A k \in 1..Len(arg.feed.entries) :
            LET entry == arg.feed.entries[k]
            IN  WellFormed(entry) =>
                    ((\E i \in 1..Len(res.matched) :
                          /\ res.matched[i].link = entry.link
                          /\ res.matched[i].keyword = arg.kw)
                     <=> ShouldMatch(entry, arg.kw))

\* an entry published on the cutoff day is recorded, one published before
\* it with the keyword in its abstract is not
C5_Witness ==
    /\ fn = "search"
    /\ ~res.raised
    /\ arg.kw = kwSiN
    /\ arg.feed.entries = <<eOld, eSinLower>>
    /\ today = <<2024, 1, 6>>
    /\ Len(res.matched) = 1
    /\ res.matched[1].link = eSinLower.link

(* ========================= properties of the run ======================= *)
FailedCalls == {i \in 1..Len(smtp_log) : ~smtp_log[i].ok}
CallsOf(call) == {i \in 1..Len(smtp_log) : smtp_log[i].call = call}

\* C2: a failure while connecting to, authenticating with or sending
\* through the relay ends the run as failed with the exception propagated,
\* never as a success, after one attempt: one connection, no call after the
\* failed one.
C2_SendFailureIsFatal ==
    FailedCalls # {} =>
        /\ pc = "failed"
        /\ failure = "SMTPException"
        /\ Cardinality(CallsOf("SMTP")) = 1
        /\ Cardinality(CallsOf("sendmail")) <= 1
        /\ FailedCalls = {Len(smtp_log)}

\* the relay rejects the login of a run that has its credentials
C2_Witness ==
    /\ CredentialsPresent
    /\ smtp_log # <<>>
    /\ smtp_log[Len(smtp_log)].call = "login"
    /\ ~smtp_log[Len(smtp_log)].ok
    /\ pc = "failed"

\* C3: a failed feed fetch does not abort the run: the keyword adds no
\* match, the matches gathered so far stay, the search goes on with the next
\* keyword, and nothing is raised.
C3_FetchFailureSoftened ==
    [][(feed_requests' = feed_requests + 1 /\ last_fetch' = "failed") =>
          /\ matched' = matched
          /\ all_grouped' = all_grouped
          /\ total_groups_with_hits' = total_groups_with_hits
          /\ ki' = ki + 1
          /\ pc' = "search_group"
          /\ failure' = "none"]_vars

ReachedMailer == pc \in {"send", "done"} \/ failure = "SMTPException"

NoMatches(g) == \A i \in 1..Len(g) : g[i].papers = <<>>

\* C10: in a run that reaches the mailer the body is the fixed
\* no-new-papers message exactly when no group had a match before
\* deduplication, which is exactly when the subject reports 0 groups; and
\* when some group had a match, the first such group keeps its first match.
C10_DedupNeverEmptiesRun ==
    ReachedMailer =>
        /\ (Len(email_body) = 1 /\ email_body[1].kind = "no-new-papers")
               <=> NoMatches(all_grouped)
        /\ NoMatches(all_grouped) <=> subject.groups = 0
        /\ ~NoMatches(all_grouped) =>
               LET first == CHOOSE i \in 1..Len(all_grouped) :
                                /\ all_grouped[i].papers # <<>>
                                /\ \A k \in 1..(i - 1) : all_grouped[k].papers = <<>>
               IN  /\ all_grouped_deduped[first].papers # <<>>
                   /\ all_grouped_deduped[first].papers[1]
                          = all_grouped[first].papers[1]

\* deduplication empties the second group of a run that is sent
C10_Witness ==
    /\ pc = "done"
    /\ all_grouped[2].papers # <<>>
    /\ all_grouped_deduped[2].papers = <<>>
    /\ email_body[1].kind = "intro"

\* C6: the group count of the subject is the number of non-empty groups of
\* the deduplicated results, the number of group headers of the body.
C6_SubjectCountsHeaders ==
    pc \in {"send", "done"} =>
        /\ subject.groups =
              Cardinality({i \in 1..Len(all_grouped_deduped) :
                              all_grouped_deduped[i].papers # <<>>})
        /\ subject.groups = Len(Headers(email_body))

\* C4: without the sender address or the sender secret the run makes no
\* feed request and no call on the mail relay.
C4_FailFastWithoutCredentials ==
    ~CredentialsPresent => (feed_requests = 0 /\ smtp_log = <<>>)

\* C9: a malformed feed entry never crashes the run: no exception of the
\* entry loop ends it.
C9_MalformedEntryNeverCrashes ==
    failure # "AttributeError"

====
